---- MODULE Spec2Model ----
(***************************************************************************)
(* Model of the FretMaster pitch logic (src/utils/pitch_logic.py) and of   *)
(* the diagram generation built on it (src/utils/generate_assets.py).      *)
(*                                                                         *)
(* A Python str is modelled as a sequence of one-character strings, so     *)
(* that note[-1] and note[:-1] are computed as the code computes them.     *)
(* A call's outcome is a record: Ok(v) for a returned value, Raise(e, m)   *)
(* for a raised exception e whose message starts with m.                   *)
(***************************************************************************)
EXTENDS Integers, Sequences, FiniteSets, TLC

VARIABLES
    note_map,           \* module global of pitch_logic.py
    guitar_string_map,  \* module global of pitch_logic.py
    op,                 \* the function the caller invokes
    note,               \* argument: a note string
    midi_number,        \* argument: a MIDI number
    string_num,         \* argument: a string number
    prefer_sharps,      \* argument: sharps or flats
    pc,                 \* "call", "returned" or "chained"
    ret,                \* outcome of the call
    ret2,               \* outcome of a second call made on the first's value
    frames,             \* per thread: the locals of its create_diagram call
    dir_exists,         \* file system: DIAGRAM_PATH is a directory
    files,              \* file system: the files in DIAGRAM_PATH, by path
    exported,           \* history: per target note, the drawings exported
    io_failed,          \* history: a mkdir or an export has failed
    calls_left,         \* create_diagram calls that may still begin
    session,            \* the client's Flask session (signed cookie)
    exercises,          \* database: the exercises table, by id
    practice_sessions,  \* database: the practice_sessions table, by id
    response,           \* what the last request was answered with
    auth,               \* history: the client's login and logout events
    renders             \* history: per note form, what its request rendered

pitch_vars == <<op, note, midi_number, string_num, prefer_sharps, pc, ret, ret2>>

diagram_vars == <<frames, dir_exists, files, exported, io_failed, calls_left>>

app_vars == <<session, exercises, practice_sessions, response, auth, renders>>

vars == <<note_map, guitar_string_map, pitch_vars, diagram_vars, app_vars>>

----------------------------------------------------------------------------
(* Bounds of the model *)

\* Longest input string given to note_to_midi and note_to_guitar_positions.
MaxLen == 3

\* How far outside 0..127 the MIDI numbers given to midi_to_note go.
PitchMargin == 14

\* How far outside 0..5 the string numbers given to midi_to_string_fret go.
StringMargin == 2

----------------------------------------------------------------------------
(* Outcomes *)

Ok(v) == [kind |-> "ok", value |-> v]

Raise(e, m) == [kind |-> "raise", exc |-> e, msg |-> m]

NoReturn == [kind |-> "none"]

\* Python's None, returned in place of a row or of a response.
None == [kind |-> "None"]

----------------------------------------------------------------------------
(* Strings *)

AsciiDigit == {"0", "1", "2", "3", "4", "5", "6", "7", "8", "9"}

\* A decimal digit outside ASCII (ARABIC-INDIC DIGIT THREE), which Python's
\* int() accepts like any character of Unicode category Nd.
UnicodeDigit == {"U+0663"}

Digit == AsciiDigit \cup UnicodeDigit

\* Characters of the input strings: the letters and accidentals of note_map,
\* the decimal digits, the signs, and three characters of no note name: a
\* letter, the path separator and the dot.
Alphabet == {"A", "B", "C", "D", "E", "F", "G", "#", "b"} \cup Digit
            \cup {"-", "+"} \cup {"H", "/", "."}

\* The strings of n characters.
StringsOfLen(n) == [1..n -> Alphabet]

DigitValue ==
    ("0" :> 0) @@ ("1" :> 1) @@ ("2" :> 2) @@ ("3" :> 3) @@ ("4" :> 4) @@
    ("5" :> 5) @@ ("6" :> 6) @@ ("7" :> 7) @@ ("8" :> 8) @@ ("9" :> 9) @@
    ("U+0663" :> 3)

DigitChar == [d \in 0..9 |-> CHOOSE c \in AsciiDigit : DigitValue[c] = d]

\* Python's int(c) for a string c of exactly one character.
int(c) ==
    IF c \in Digit THEN Ok(DigitValue[c])
    ELSE Raise("ValueError", "invalid literal for int()")

RECURSIVE NatToStr(_)
NatToStr(n) ==
    IF n < 10 THEN <<DigitChar[n]>>
    ELSE Append(NatToStr(n \div 10), DigitChar[n % 10])

\* Python's str(n), used by the f-string of midi_to_note.
str(n) == IF n < 0 THEN <<"-">> \o NatToStr(0 - n) ELSE NatToStr(n)

----------------------------------------------------------------------------
(* pitch_logic.py *)

NoteMap ==
    (<<"C">> :> 0)       @@ (<<"B", "#">> :> 0)  @@
    (<<"C", "#">> :> 1)  @@ (<<"D", "b">> :> 1)  @@
    (<<"D">> :> 2)       @@
    (<<"D", "#">> :> 3)  @@ (<<"E", "b">> :> 3)  @@
    (<<"E">> :> 4)       @@ (<<"F", "b">> :> 4)  @@
    (<<"E", "#">> :> 5)  @@ (<<"F">> :> 5)       @@
    (<<"F", "#">> :> 6)  @@ (<<"G", "b">> :> 6)  @@
    (<<"G">> :> 7)       @@
    (<<"G", "#">> :> 8)  @@ (<<"A", "b">> :> 8)  @@
    (<<"A">> :> 9)       @@
    (<<"A", "#">> :> 10) @@ (<<"B", "b">> :> 10) @@
    (<<"B">> :> 11)      @@ (<<"C", "b">> :> 11)

\* Mutant of note_to_midi: the octave is not shifted by one.
note_to_midi_no_shift(n) ==
    IF Len(n) = 0 THEN Raise("IndexError", "string index out of range")
    ELSE LET octave    == int(n[Len(n)])
             note_name == SubSeq(n, 1, Len(n) - 1)
         IN  IF octave.kind = "raise"
                 THEN Raise("ValueError", "Invalid note syntax")
             ELSE IF note_name \notin DOMAIN note_map
                 THEN Raise("ValueError", "Invalid note name")
             ELSE Ok(octave.value * 12 + note_map[note_name])

\* Mutant of note_to_midi: the pitch class is the letter's class moved by
\* the accidental, so that B# and Cb leave the octave.
note_to_midi_accidental(n) ==
    IF Len(n) = 0 THEN Raise("IndexError", "string index out of range")
    ELSE LET octave    == int(n[Len(n)])
             note_name == SubSeq(n, 1, Len(n) - 1)
             shift     == IF Len(note_name) < 2 THEN 0
                          ELSE IF note_name[2] = "#" THEN 1 ELSE 0 - 1
         IN  IF octave.kind = "raise"
                 THEN Raise("ValueError", "Invalid note syntax")
             ELSE IF note_name \notin DOMAIN note_map
                 THEN Raise("ValueError", "Invalid note name")
             ELSE Ok((octave.value + 1) * 12
                     + note_map[<<note_name[1]>>] + shift)

\* Mutant of note_to_midi: an unknown name gets pitch class 0
\* (note_map.get(note_name, 0)).
note_to_midi_default(n) ==
    IF Len(n) = 0 THEN Raise("IndexError", "string index out of range")
    ELSE LET octave    == int(n[Len(n)])
             note_name == SubSeq(n, 1, Len(n) - 1)
             pitch_class == IF note_name \in DOMAIN note_map
                            THEN note_map[note_name] ELSE 0
         IN  IF octave.kind = "raise"
                 THEN Raise("ValueError", "Invalid note syntax")
             ELSE Ok((octave.value + 1) * 12 + pitch_class)

\* note[-1] of the empty string raises IndexError, which the except clause
\* (ValueError only) does not catch.
note_to_midi(n) ==
    IF Len(n) = 0 THEN Raise("IndexError", "string index out of range")
    ELSE LET octave    == int(n[Len(n)])
             note_name == SubSeq(n, 1, Len(n) - 1)
         IN  IF octave.kind = "raise"
                 THEN Raise("ValueError", "Invalid note syntax")
             ELSE IF note_name \notin DOMAIN note_map
                 THEN Raise("ValueError", "Invalid note name")
             ELSE Ok((octave.value + 1) * 12 + note_map[note_name])

note_names_sharp ==
    << <<"C">>, <<"C", "#">>, <<"D">>, <<"D", "#">>, <<"E">>, <<"F">>,
       <<"F", "#">>, <<"G">>, <<"G", "#">>, <<"A">>, <<"A", "#">>, <<"B">> >>

note_names_flat ==
    << <<"C">>, <<"D", "b">>, <<"D">>, <<"E", "b">>, <<"E">>, <<"F">>,
       <<"G", "b">>, <<"G">>, <<"A", "b">>, <<"A">>, <<"B", "b">>, <<"B">> >>

\* Mutant of midi_to_note: the range check lets 128 through.
midi_to_note_off_by_one(m, sharps) ==
    IF ~(0 <= m /\ m <= 128)
        THEN Raise("ValueError", "outside valid range (0-127)")
    ELSE LET note_names  == IF sharps THEN note_names_sharp ELSE note_names_flat
             octave      == (m \div 12) - 1
             pitch_class == m % 12
             note_name   == note_names[pitch_class + 1]
         IN  Ok(note_name \o str(octave))

\* Mutant of midi_to_note: the octave is not shifted back by one.
midi_to_note_no_shift(m, sharps) ==
    IF ~(0 <= m /\ m <= 127)
        THEN Raise("ValueError", "outside valid range (0-127)")
    ELSE LET note_names  == IF sharps THEN note_names_sharp ELSE note_names_flat
             octave      == m \div 12
             pitch_class == m % 12
             note_name   == note_names[pitch_class + 1]
         IN  Ok(note_name \o str(octave))

midi_to_note(m, sharps) ==
    IF ~(0 <= m /\ m <= 127)
        THEN Raise("ValueError", "outside valid range (0-127)")
    ELSE LET note_names  == IF sharps THEN note_names_sharp ELSE note_names_flat
             octave      == (m \div 12) - 1
             pitch_class == m % 12
             note_name   == note_names[pitch_class + 1]
         IN  Ok(note_name \o str(octave))

\* The notes of the open strings, in the order of guitar_string_map's keys.
open_string_notes ==
    << <<"E", "2">>, <<"A", "2">>, <<"D", "3">>,
       <<"G", "3">>, <<"B", "3">>, <<"E", "4">> >>

\* Mutant of midi_to_string_fret: the strings are numbered from 1.
midi_to_string_fret_one_based(s, target_midi_number) ==
    IF ~(1 <= s /\ s <= 6)
        THEN Raise("ValueError", "String number outside 0 - 5 range")
    ELSE IF s \notin DOMAIN guitar_string_map
        THEN Raise("KeyError", "6")
    ELSE Ok(<<s, target_midi_number - guitar_string_map[s]>>)

\* Mutant of midi_to_string_fret: the subtraction is the wrong way round.
midi_to_string_fret_reversed(s, target_midi_number) ==
    IF ~(0 <= s /\ s <= 5)
        THEN Raise("ValueError", "String number outside 0 - 5 range")
    ELSE LET open_string_midi == guitar_string_map[s]
             fret_number      == open_string_midi - target_midi_number
         IN  Ok(<<s, fret_number>>)

midi_to_string_fret(s, target_midi_number) ==
    IF ~(0 <= s /\ s <= 5)
        THEN Raise("ValueError", "String number outside 0 - 5 range")
    ELSE LET open_string_midi == guitar_string_map[s]
             fret_number      == target_midi_number - open_string_midi
         IN  Ok(<<s, fret_number>>)

\* Mutant of positions_loop: a string the target lies below is left out.
RECURSIVE positions_loop_skip(_, _, _, _)
positions_loop_skip(string_number, number_of_strings, midi_note_number, positions) ==
    IF string_number >= number_of_strings THEN Ok(positions)
    ELSE LET string_fret == midi_to_string_fret(string_number, midi_note_number)
         IN  IF string_fret.kind = "raise" THEN string_fret
             ELSE positions_loop_skip(
                      string_number + 1, number_of_strings, midi_note_number,
                      IF string_fret.value[2] < 0 THEN positions
                      ELSE Append(positions, string_fret.value))

\* The for loop of note_to_guitar_positions, from string_number on; an
\* exception raised by midi_to_string_fret ends it.
RECURSIVE positions_loop(_, _, _, _)
positions_loop(string_number, number_of_strings, midi_note_number, positions) ==
    IF string_number >= number_of_strings THEN Ok(positions)
    ELSE LET string_fret == midi_to_string_fret(string_number, midi_note_number)
         IN  IF string_fret.kind = "raise" THEN string_fret
             ELSE positions_loop(string_number + 1, number_of_strings,
                                 midi_note_number,
                                 Append(positions, string_fret.value))

note_to_guitar_positions(target_note) ==
    LET midi == note_to_midi(target_note)
        number_of_strings == Cardinality(DOMAIN guitar_string_map)
    IN  IF midi.kind = "raise" THEN midi
        ELSE positions_loop(0, number_of_strings, midi.value, << >>)

----------------------------------------------------------------------------
(* generate_assets.py *)

\* config.py: DIAGRAM_PATH = PROJECT_ROOT / 'static' / 'diagrams'
DIAGRAM_PATH == <<"static", "diagrams">>

\* The default of create_diagram's fret_range parameter.
default_fret_range == <<0, 12>>

\* Mutant of note_name_only: the label keeps the octave.
note_name_with_octave(target_note) == target_note

\* target_note[:-1]
note_name_only(target_note) == SubSeq(target_note, 1, Len(target_note) - 1)

\* fb.add_note(string_no=string_num + 1, note=note_name_only): the drawing
\* surface is given the string number and the label, nothing else.
add_note(fb, string_no, label) ==
    Append(fb, [string_no |-> string_no, note |-> label])

\* Mutant of add_notes: the upper bound of the fret range is exclusive.
RECURSIVE add_notes_below_upper(_, _, _, _, _)
add_notes_below_upper(fb, positions, i, label, fret_range) ==
    IF i > Len(positions) THEN fb
    ELSE LET string_idx  == positions[i][1]
             fret        == positions[i][2]
             lower_bound == fret_range[1]
             upper_bound == fret_range[2]
         IN  add_notes_below_upper(
                 IF lower_bound <= fret /\ fret < upper_bound
                     THEN add_note(fb, string_idx + 1, label)
                     ELSE fb,
                 positions, i + 1, label, fret_range)

\* The for loop of create_diagram over the positions from index i on.
RECURSIVE add_notes(_, _, _, _, _)
add_notes(fb, positions, i, label, fret_range) ==
    IF i > Len(positions) THEN fb
    ELSE LET string_idx  == positions[i][1]
             fret        == positions[i][2]
             lower_bound == fret_range[1]
             upper_bound == fret_range[2]
         IN  add_notes(IF lower_bound <= fret /\ fret <= upper_bound
                           THEN add_note(fb, string_idx + 1, label)
                           ELSE fb,
                       positions, i + 1, label, fret_range)

\* Mutant of save_name: the file is named after the MIDI number.
save_name_by_pitch(target_note) ==
    [dir |-> DIAGRAM_PATH, sub |-> << >>,
     name |-> (IF note_to_midi(target_note).kind = "ok"
               THEN str(note_to_midi(target_note).value) ELSE target_note)
              \o <<".svg">>]

\* The components of a path text from character i on, cur being the
\* component read so far: pathlib splits the text at "/" and drops the empty
\* components and the "." components; a ".." component is kept.
RECURSIVE path_parts(_, _, _)
path_parts(text, i, cur) ==
    LET part == IF cur = << >> \/ cur = <<".">> THEN << >> ELSE <<cur>>
    IN  IF i > Len(text) THEN part
        ELSE IF text[i] = "/" THEN part \o path_parts(text, i + 1, << >>)
        ELSE path_parts(text, i + 1, Append(cur, text[i]))

\* DIAGRAM_PATH / f'{target_note}.svg': the path is absolute when the text
\* starts with "/", and under DIAGRAM_PATH otherwise; sub holds the
\* components between that directory and the file name.
save_name(target_note) ==
    LET text  == target_note \o <<".svg">>
        parts == path_parts(text, 1, << >>)
    IN  [dir  |-> IF text[1] = "/" THEN <<"/">> ELSE DIAGRAM_PATH,
         sub  |-> SubSeq(parts, 1, Len(parts) - 1),
         name |-> parts[Len(parts)]]

\* DIAGRAM_PATH.mkdir(parents=True, exist_ok=True): succeeds on a directory
\* that exists; creating it succeeds when the file system permits.
mkdir(exists, permitted) ==
    IF exists \/ permitted THEN Ok(TRUE)
    ELSE Raise("OSError", "mkdir")

\* What fb.export leaves in a file: the drawing, or a truncated file when
\* the write failed after the file was opened.
Drawing(fb) == [complete |-> TRUE, notes |-> fb]

Truncated == [complete |-> FALSE, notes |-> << >>]

\* Mutant of Write: a file that exists is not written again.
Write_if_absent(fs, path, content) == fs @@ (path :> content)

Write(fs, path, content) == (path :> content) @@ fs

Threads == {"t1", "t2"}

Other(t) == CHOOSE u \in Threads : u # t

\* A thread that is in no create_diagram call.
IdleFrame ==
    [pc |-> "idle", target_note |-> << >>, fret_range |-> default_fret_range,
     positions |-> << >>, fb |-> << >>, ret |-> NoReturn,
     mkdirs |-> 0, exports |-> 0, overlapped |-> FALSE]

\* Lines 15-20: fb = FretBoard(), the arguments are bound.
EnteredFrame(target_note, fret_range) ==
    [pc |-> "resolve", target_note |-> target_note, fret_range |-> fret_range,
     positions |-> << >>, fb |-> << >>, ret |-> NoReturn,
     mkdirs |-> 0, exports |-> 0, overlapped |-> FALSE]

\* A thread enters create_diagram(target_note, fret_range).
Begin(t, target_note, fret_range) ==
    /\ frames[t].pc = "idle"
    /\ calls_left > 0
    /\ calls_left' = calls_left - 1
    /\ frames' = [frames EXCEPT ![t] = EnteredFrame(target_note, fret_range)]
    /\ UNCHANGED <<note_map, guitar_string_map, pitch_vars, app_vars,
                   dir_exists, files, exported, io_failed>>

\* Mutant of Resolve: the directory is made before the note is resolved.
Resolve_after_mkdir(t) ==
    /\ frames[t].pc = "resolve"
    /\ LET r == note_to_guitar_positions(frames[t].target_note)
       IN  frames' = [frames EXCEPT ![t] =
               IF r.kind = "raise"
               THEN [@ EXCEPT !.pc = "idle", !.ret = r]
               ELSE [@ EXCEPT !.pc = "mark", !.positions = r.value]]
    /\ dir_exists' = TRUE
    /\ UNCHANGED <<note_map, guitar_string_map, pitch_vars, app_vars,
                   files, exported, io_failed, calls_left>>

\* Mutant of Resolve: the name of a target that note_map does not know is
\* entered into note_map, with pitch class 0.
Resolve_registering(t) ==
    /\ frames[t].pc = "resolve"
    /\ LET r == note_to_guitar_positions(frames[t].target_note)
           name == note_name_only(frames[t].target_note)
       IN  /\ frames' = [frames EXCEPT ![t] =
                  IF r.kind = "raise"
                  THEN [@ EXCEPT !.pc = "idle", !.ret = r]
                  ELSE [@ EXCEPT !.pc = "mark", !.positions = r.value]]
           /\ note_map' = IF name \in DOMAIN note_map THEN note_map
                          ELSE (name :> 0) @@ note_map
    /\ UNCHANGED <<guitar_string_map, pitch_vars, app_vars,
                   dir_exists, files, exported, io_failed, calls_left>>

\* Line 21: note_to_guitar_positions(target_note); its exception ends the call.
Resolve(t) ==
    /\ frames[t].pc = "resolve"
    /\ LET r == note_to_guitar_positions(frames[t].target_note)
       IN  frames' = [frames EXCEPT ![t] =
               IF r.kind = "raise"
               THEN [@ EXCEPT !.pc = "idle", !.ret = r]
               ELSE [@ EXCEPT !.pc = "mark", !.positions = r.value]]
    /\ UNCHANGED <<note_map, guitar_string_map, pitch_vars, app_vars,
                   dir_exists, files, exported, io_failed, calls_left>>

\* Lines 21-23: the markers of the positions inside the fret range.
Mark(t) ==
    /\ frames[t].pc = "mark"
    /\ LET f == frames[t]
       IN  frames' = [frames EXCEPT ![t] =
               [f EXCEPT !.pc = "mkdir",
                         !.fb = add_notes(<< >>, f.positions, 1,
                                          note_name_only(f.target_note),
                                          f.fret_range)]]
    /\ UNCHANGED <<note_map, guitar_string_map, pitch_vars, app_vars,
                   dir_exists, files, exported, io_failed, calls_left>>

\* Mutant of Mkdir: a failed mkdir is tried again.
Mkdir_retry(t) ==
    /\ frames[t].pc = "mkdir"
    /\ \E permitted \in BOOLEAN :
          LET r == mkdir(dir_exists, permitted)
          IN  IF r.kind = "ok"
              THEN /\ dir_exists' = TRUE
                   /\ frames' = [frames EXCEPT ![t] =
                          [@ EXCEPT !.pc = "export", !.mkdirs = @ + 1]]
                   /\ UNCHANGED io_failed
              ELSE /\ frames' = [frames EXCEPT ![t] =
                          [@ EXCEPT !.mkdirs = @ + 1]]
                   /\ io_failed' = TRUE
                   /\ UNCHANGED dir_exists
    /\ UNCHANGED <<note_map, guitar_string_map, pitch_vars, app_vars,
                   files, exported, calls_left>>

\* Line 26: the directory is made; a failure ends the call.
Mkdir(t) ==
    /\ frames[t].pc = "mkdir"
    /\ \E permitted \in BOOLEAN :
          LET r == mkdir(dir_exists, permitted)
          IN  IF r.kind = "ok"
              THEN /\ dir_exists' = TRUE
                   /\ frames' = [frames EXCEPT ![t] =
                          [@ EXCEPT !.pc = "export", !.mkdirs = @ + 1]]
                   /\ UNCHANGED io_failed
              ELSE /\ frames' = [frames EXCEPT ![t] =
                          [@ EXCEPT !.pc = "idle", !.ret = r, !.mkdirs = @ + 1]]
                   /\ io_failed' = TRUE
                   /\ UNCHANGED dir_exists
    /\ UNCHANGED <<note_map, guitar_string_map, pitch_vars, app_vars,
                   files, exported, calls_left>>

\* Mutant of Export: each thread exports to a file of its own.
Export_per_thread(t) ==
    /\ frames[t].pc = "export"
    /\ LET f    == frames[t]
           path == [dir |-> DIAGRAM_PATH, sub |-> << >>,
                    name |-> f.target_note \o <<".svg", t>>]
           race == /\ frames[Other(t)].pc = "export"
                   /\ frames[Other(t)].target_note = f.target_note
       IN  \/ /\ files' = Write(files, path, Drawing(f.fb))
              /\ exported' =
                     (f.target_note :>
                          Append(IF f.target_note \in DOMAIN exported
                                 THEN exported[f.target_note] ELSE << >>,
                                 f.fb)) @@ exported
              /\ frames' = [frames EXCEPT ![t] =
                     [@ EXCEPT !.pc = "idle", !.ret = Ok(path),
                               !.exports = @ + 1, !.overlapped = race]]
              /\ UNCHANGED io_failed
           \/ /\ files' \in {files, Write(files, path, Truncated)}
              /\ frames' = [frames EXCEPT ![t] =
                     [@ EXCEPT !.pc = "idle", !.ret = Raise("OSError", "export"),
                               !.exports = @ + 1]]
              /\ io_failed' = TRUE
              /\ UNCHANGED exported
    /\ UNCHANGED <<note_map, guitar_string_map, pitch_vars, app_vars,
                   dir_exists, calls_left>>

\* Lines 29-32: the drawing is exported to save_name, which is returned; a
\* failed export ends the call and leaves the file as it was or truncated.
\* The export is one step: the write of the drawing library is not part of
\* the repository.
Export(t) ==
    /\ frames[t].pc = "export"
    /\ LET f    == frames[t]
           path == save_name(f.target_note)
           race == /\ frames[Other(t)].pc = "export"
                   /\ frames[Other(t)].target_note = f.target_note
       IN  \/ /\ files' = Write(files, path, Drawing(f.fb))
              /\ exported' =
                     (f.target_note :>
                          Append(IF f.target_note \in DOMAIN exported
                                 THEN exported[f.target_note] ELSE << >>,
                                 f.fb)) @@ exported
              /\ frames' = [frames EXCEPT ![t] =
                     [@ EXCEPT !.pc = "idle", !.ret = Ok(path),
                               !.exports = @ + 1, !.overlapped = race]]
              /\ UNCHANGED io_failed
           \/ /\ files' \in {files, Write(files, path, Truncated)}
              /\ frames' = [frames EXCEPT ![t] =
                     [@ EXCEPT !.pc = "idle", !.ret = Raise("OSError", "export"),
                               !.exports = @ + 1]]
              /\ io_failed' = TRUE
              /\ UNCHANGED exported
    /\ UNCHANGED <<note_map, guitar_string_map, pitch_vars, app_vars,
                   dir_exists, calls_left>>

\* The web application is not running: no request was made, the tables hold
\* no row.
NoRequest ==
    /\ session = << >>
    /\ exercises = << >>
    /\ practice_sessions = << >>
    /\ response = None
    /\ auth = [last |-> "none", changed |-> "none"]
    /\ renders = << >>

\* No create_diagram call is made or under way; the file system is fresh.
NoDiagramCall ==
    /\ frames = [t \in Threads |-> IdleFrame]
    /\ dir_exists = FALSE
    /\ files = << >>
    /\ exported = << >>
    /\ io_failed = FALSE
    /\ calls_left = 0

----------------------------------------------------------------------------
(* database/db_operations.py: every function is one transaction on the     *)
(* tables. A table is a function from the ids of its rows to the rows.     *)

\* Most rows the exercises table holds at a time.
MaxExercises == 2

\* Most rows the practice_sessions table holds at a time.
MaxSessions == 1

\* The ids SQLite can give to a new row: any id no row of the table has
\* (the CREATE TABLE statements, and with them the choice between reusing
\* and not reusing ids, are in schema.sql).
ExerciseIds == 1..MaxExercises

SessionIds == 1..MaxSessions

\* init_db.py, sample_users: the users table; password stands for the
\* password whose hash the row stores.
sample_users ==
    (1 :> [username |-> "admin", password |-> "admin123", is_admin |-> 1]) @@
    (2 :> [username |-> "John_guitarist", password |-> "password123", is_admin |-> 0]) @@
    (3 :> [username |-> "sarah_bass", password |-> "password123", is_admin |-> 0])

\* werkzeug's check_password_hash on the hash generate_password_hash made
\* of stored.
check_password_hash(stored, password) == stored = password

\* Mutant of authenticate_user: the password is not verified.
authenticate_user_any_password(username, password) ==
    LET found == {u \in DOMAIN sample_users : sample_users[u].username = username}
    IN  IF found = {} THEN None
        ELSE LET u == CHOOSE u \in found : TRUE
             IN  Ok([id |-> u, is_admin |-> sample_users[u].is_admin])

authenticate_user(username, password) ==
    LET found == {u \in DOMAIN sample_users : sample_users[u].username = username}
    IN  IF found = {} THEN None
        ELSE LET u == CHOOSE u \in found : TRUE
             IN  IF check_password_hash(sample_users[u].password, password)
                 THEN Ok([id |-> u, is_admin |-> sample_users[u].is_admin])
                 ELSE None

get_exercise_by_id(exercise_id) ==
    IF exercise_id \in DOMAIN exercises THEN Ok(exercises[exercise_id]) ELSE None

\* The LEFT JOIN adds the average difficulty to the row; the row is there
\* exactly when the exercise is.
get_exercise_with_avg_difficulty(exercise_id) == get_exercise_by_id(exercise_id)

\* A table without the row of an id.
Delete(table, id) == [i \in DOMAIN table \ {id} |-> table[i]]

\* Mutant of create_exercise: the title is not looked up before the insert.
create_exercise_no_lookup(title, description, note_range, musical_concept, svg_diagram_path, created_by, rowid) ==
    [ret |-> TRUE,
     exercises |-> (rowid :> [title |-> title, description |-> description,
                              note_range |-> note_range,
                              musical_concept |-> musical_concept,
                              svg_diagram_path |-> svg_diagram_path,
                              created_by |-> created_by]) @@ exercises]

\* rowid is the id SQLite gives to the inserted row.
create_exercise(title, description, note_range, musical_concept, svg_diagram_path, created_by, rowid) ==
    IF \E e \in DOMAIN exercises : exercises[e].title = title
    THEN [ret |-> FALSE, exercises |-> exercises]
    ELSE [ret |-> TRUE,
          exercises |-> (rowid :> [title |-> title, description |-> description,
                                   note_range |-> note_range,
                                   musical_concept |-> musical_concept,
                                   svg_diagram_path |-> svg_diagram_path,
                                   created_by |-> created_by]) @@ exercises]

\* Mutant of update_exercise: the exercise's own title counts as taken.
update_exercise_own_title_taken(exercise_id, title, description, note_range, musical_concept, svg_diagram_path) ==
    IF get_exercise_by_id(exercise_id).kind = "None"
    THEN [ret |-> FALSE, exercises |-> exercises]
    ELSE IF \E e \in DOMAIN exercises : exercises[e].title = title
    THEN [ret |-> FALSE, exercises |-> exercises]
    ELSE [ret |-> TRUE,
          exercises |-> [exercises EXCEPT ![exercise_id] =
              [@ EXCEPT !.title = title, !.description = description,
                        !.note_range = note_range,
                        !.musical_concept = musical_concept,
                        !.svg_diagram_path =
                            IF svg_diagram_path # << >> THEN svg_diagram_path
                            ELSE @]]]

\* svg_diagram_path is << >> for None and for the empty string, which the
\* code takes alike (if svg_diagram_path:).
update_exercise(exercise_id, title, description, note_range, musical_concept, svg_diagram_path) ==
    IF get_exercise_by_id(exercise_id).kind = "None"
    THEN [ret |-> FALSE, exercises |-> exercises]
    ELSE IF \E e \in DOMAIN exercises \ {exercise_id} : exercises[e].title = title
    THEN [ret |-> FALSE, exercises |-> exercises]
    ELSE [ret |-> TRUE,
          exercises |-> [exercises EXCEPT ![exercise_id] =
              [@ EXCEPT !.title = title, !.description = description,
                        !.note_range = note_range,
                        !.musical_concept = musical_concept,
                        !.svg_diagram_path =
                            IF svg_diagram_path # << >> THEN svg_diagram_path
                            ELSE @]]]

\* The connection does not turn foreign keys on (PRAGMA foreign_keys), so
\* SQLite deletes the row and leaves the practice sessions of the exercise.
delete_exercise(exercise_id) ==
    IF get_exercise_by_id(exercise_id).kind = "None"
    THEN [ret |-> FALSE, exercises |-> exercises]
    ELSE [ret |-> TRUE, exercises |-> Delete(exercises, exercise_id)]

get_session_by_id(session_id) ==
    IF session_id \in DOMAIN practice_sessions
    THEN Ok(practice_sessions[session_id]) ELSE None

\* The ids of the rows the JOIN with exercises returns for the user.
get_user_practice_sessions(user_id) ==
    {s \in DOMAIN practice_sessions :
        /\ practice_sessions[s].user_id = user_id
        /\ practice_sessions[s].exercise_id \in DOMAIN exercises}

\* Mutant of create_practice_session: the rating is not checked.
create_practice_session_any_rating(user_id, exercise_id, difficulty_rating, session_notes, practice_date, rowid) ==
    IF get_exercise_by_id(exercise_id).kind = "None"
    THEN [ret |-> FALSE, practice_sessions |-> practice_sessions]
    ELSE [ret |-> TRUE,
          practice_sessions |->
              (rowid :> [user_id |-> user_id, exercise_id |-> exercise_id,
                         difficulty_rating |-> difficulty_rating,
                         session_notes |-> session_notes,
                         practice_date |-> practice_date]) @@ practice_sessions]

create_practice_session(user_id, exercise_id, difficulty_rating, session_notes, practice_date, rowid) ==
    IF get_exercise_by_id(exercise_id).kind = "None"
    THEN [ret |-> FALSE, practice_sessions |-> practice_sessions]
    ELSE IF ~(1 <= difficulty_rating /\ difficulty_rating <= 5)
    THEN [ret |-> FALSE, practice_sessions |-> practice_sessions]
    ELSE [ret |-> TRUE,
          practice_sessions |->
              (rowid :> [user_id |-> user_id, exercise_id |-> exercise_id,
                         difficulty_rating |-> difficulty_rating,
                         session_notes |-> session_notes,
                         practice_date |-> practice_date]) @@ practice_sessions]

update_practice_session(session_id, difficulty_rating, session_notes, practice_date) ==
    IF get_session_by_id(session_id).kind = "None"
    THEN [ret |-> FALSE, practice_sessions |-> practice_sessions]
    ELSE IF ~(1 <= difficulty_rating /\ difficulty_rating <= 5)
    THEN [ret |-> FALSE, practice_sessions |-> practice_sessions]
    ELSE [ret |-> TRUE,
          practice_sessions |-> [practice_sessions EXCEPT ![session_id] =
              [@ EXCEPT !.difficulty_rating = difficulty_rating,
                        !.session_notes = session_notes,
                        !.practice_date = practice_date]]]

delete_practice_session(session_id) ==
    IF get_session_by_id(session_id).kind = "None"
    THEN [ret |-> FALSE, practice_sessions |-> practice_sessions]
    ELSE [ret |-> TRUE,
          practice_sessions |-> Delete(practice_sessions, session_id)]

\* init_db.py, sample_exercises: the titles of the first two exercises.
Titles == {"C Major Scale - Position 1", "E Minor Pentatonic"}

\* init_db.py, sample_exercises: the first exercise.
sample_exercise ==
    [title |-> "C Major Scale - Position 1",
     description |-> "Learn the C Major scale in first position",
     note_range |-> <<"C", "3", "-", "G", "4">>,
     musical_concept |-> "scales",
     svg_diagram_path |-> <<"/static/diagrams/", "c_major_pos1.svg">>,
     created_by |-> 1]

\* init_db.py, sample_sessions: the first practice session.
sample_session ==
    [user_id |-> 2, exercise_id |-> 1, difficulty_rating |-> 3,
     session_notes |-> "Found this challenging at first, but getting smoother",
     practice_date |-> "2025-11-20"]

\* The database of init_database() after the exercises 2 to 4 and the
\* practice sessions 2 to 6 were deleted.
DatabaseSeeded ==
    /\ exercises = (1 :> sample_exercise)
    /\ practice_sessions = (1 :> sample_session)

----------------------------------------------------------------------------
(* app.py: a request is handled in one step. The responses are redirects   *)
(* and rendered templates, each with the message it flashes; an exception  *)
(* that leaves the route is the response of a failed request.              *)

Redirect(endpoint, message) ==
    [kind |-> "redirect", to |-> endpoint, flash |-> message]

Render(template, message) ==
    [kind |-> "render", to |-> template, flash |-> message]

\* The flashed messages of the two access checks go on to name the url.
check_login_access ==
    IF "user_id" \notin DOMAIN session
    THEN Redirect("login", "Unauthenticated request")
    ELSE None

\* Mutant of check_admin_access: a logged-in user counts as an admin.
check_admin_access_login_only == check_login_access

check_admin_access ==
    LET logged_in == check_login_access
    IN  IF logged_in.kind # "None" THEN logged_in
        ELSE IF ~("is_admin" \in DOMAIN session /\ session["is_admin"] = 1)
        THEN Redirect("home", "Unauthorised request")
        ELSE None

\* What a request leaves alone whatever it does.
RequestFrame ==
    UNCHANGED <<note_map, guitar_string_map, pitch_vars,
                frames, exported, io_failed, calls_left>>

login(method, username, password) ==
    /\ IF method = "POST"
       THEN LET user == authenticate_user(username, password)
            IN  IF user.kind = "ok"
                THEN /\ session' = ("user_id" :> user.value.id) @@
                                   ("is_admin" :> user.value.is_admin) @@ session
                     /\ response' = Redirect("home", "Successful login")
                     /\ auth' = [last |-> "login", changed |-> "login"]
                ELSE /\ response' = Render("auth/login.html",
                                           "Invalid username or password")
                     /\ auth' = [auth EXCEPT !.last = "failed login"]
                     /\ UNCHANGED session
       ELSE /\ response' = Render("auth/login.html", "")
            /\ UNCHANGED <<session, auth>>
    /\ UNCHANGED <<exercises, practice_sessions, renders, dir_exists, files>>
    /\ RequestFrame

\* Mutant of logout: the session is not cleared.
logout_without_clear ==
    /\ response' = Redirect("home", "You have been logged out successfully")
    /\ auth' = [last |-> "logout", changed |-> "logout"]
    /\ UNCHANGED <<session, exercises, practice_sessions, renders,
                   dir_exists, files>>
    /\ RequestFrame

logout ==
    /\ session' = << >>
    /\ response' = Redirect("home", "You have been logged out successfully")
    /\ auth' = [last |-> "logout", changed |-> "logout"]
    /\ UNCHANGED <<exercises, practice_sessions, renders, dir_exists, files>>
    /\ RequestFrame

\* create_diagram as the one call a route makes: what it returns or raises
\* and the file system it leaves; io says whether the file system lets the
\* directory be made, and whether the export succeeds, fails leaving the
\* file as it was, or fails leaving it truncated.
create_diagram(target_note, fret_range, io) ==
    LET positions == note_to_guitar_positions(target_note)
    IN  IF positions.kind = "raise"
        THEN [ret |-> positions, dir_exists |-> dir_exists, files |-> files]
        ELSE LET fb   == add_notes(<< >>, positions.value, 1,
                                   note_name_only(target_note), fret_range)
                 made == mkdir(dir_exists, io.mkdir)
                 path == save_name(target_note)
             IN  IF made.kind = "raise"
                 THEN [ret |-> made, dir_exists |-> dir_exists, files |-> files]
                 ELSE IF io.export = "ok"
                 THEN [ret |-> Ok(path), dir_exists |-> TRUE,
                       files |-> Write(files, path, Drawing(fb))]
                 ELSE [ret |-> Raise("OSError", "export"), dir_exists |-> TRUE,
                       files |-> IF io.export = "truncated"
                                 THEN Write(files, path, Truncated) ELSE files]

IoOutcomes == [mkdir : BOOLEAN, export : {"ok", "failed", "truncated"}]

\* name.replace('#', '%23')
RECURSIVE replace(_)
replace(name) ==
    IF name = << >> THEN << >>
    ELSE (IF Head(name) = "#" THEN <<"%", "2", "3">> ELSE <<Head(name)>>)
             \o replace(Tail(name))

\* f"/static/diagrams/{diagram.name.replace('#', '%23')}"
svg_path(diagram) == <<"/static/diagrams/">> \o replace(diagram.name)

\* Mutant of note_target: the diagram is made for the end octave.
note_target_end_octave(form) == form.root_note_name \o form.end_note_octave

\* The note the exercise routes give to create_diagram.
note_target(form) == form.root_note_name \o form.root_note_octave

\* note_range = root_note_name + root_note_octave + "-" + root_note_name +
\* end_note_octave
note_range_of(form) ==
    form.root_note_name \o form.root_note_octave \o <<"-">>
        \o form.root_note_name \o form.end_note_octave

\* History: what the request of a note form rendered and had stored.
Rendered(form, diagram, svg_diagram_path) ==
    (<<form.root_note_name, form.root_note_octave, form.end_note_octave>> :>
        [target_note |-> note_target(form),
         path |-> diagram.ret.value,
         drawing |-> diagram.files[diagram.ret.value],
         svg_diagram_path |-> svg_diagram_path,
         note_range |-> note_range_of(form)]) @@ renders

\* rowid is the id SQLite gives to the row when create_exercise inserts one.
create_exercise_route(method, form, io, rowid) ==
    /\ LET result == check_admin_access
       IN  IF result.kind # "None"
           THEN /\ response' = result
                /\ UNCHANGED <<exercises, renders, dir_exists, files>>
           ELSE IF method = "POST"
           THEN LET diagram == create_diagram(note_target(form),
                                              default_fret_range, io)
                IN  /\ dir_exists' = diagram.dir_exists
                    /\ files' = diagram.files
                    /\ IF diagram.ret.kind = "raise"
                       THEN /\ response' = diagram.ret
                            /\ UNCHANGED <<exercises, renders>>
                       ELSE LET svg_diagram_path == svg_path(diagram.ret.value)
                                created == create_exercise(form.title,
                                    form.description, note_range_of(form),
                                    form.musical_concept, svg_diagram_path,
                                    session["user_id"], rowid)
                            IN  /\ created.ret => rowid \notin DOMAIN exercises
                                /\ exercises' = created.exercises
                                /\ renders' = Rendered(form, diagram, svg_diagram_path)
                                /\ response' =
                                       IF ~created.ret
                                       THEN Render("exercises/create.html",
                                                "An exercise with that name already exists, please choose a new one")
                                       ELSE Redirect("browse_exercises", "")
           ELSE /\ response' = Render("exercises/create.html", "")
                /\ UNCHANGED <<exercises, renders, dir_exists, files>>
    /\ UNCHANGED <<session, practice_sessions, auth>>
    /\ RequestFrame

\* The GET branch renders the form filled in from the exercise's row.
edit_exercise_route(exercise_id, method, form, io) ==
    /\ LET result   == check_admin_access
           exercise == get_exercise_with_avg_difficulty(exercise_id)
       IN  IF result.kind # "None"
           THEN /\ response' = result
                /\ UNCHANGED <<exercises, renders, dir_exists, files>>
           ELSE IF exercise.kind = "None"
           THEN /\ response' = Redirect("browse_exercises", "Exercise not found")
                /\ UNCHANGED <<exercises, renders, dir_exists, files>>
           ELSE IF method = "POST"
           THEN LET diagram == create_diagram(note_target(form),
                                              default_fret_range, io)
                IN  /\ dir_exists' = diagram.dir_exists
                    /\ files' = diagram.files
                    /\ IF diagram.ret.kind = "raise"
                       THEN /\ response' = diagram.ret
                            /\ UNCHANGED <<exercises, renders>>
                       ELSE LET svg_diagram_path == svg_path(diagram.ret.value)
                                updated == update_exercise(exercise_id,
                                    form.title, form.description,
                                    note_range_of(form), form.musical_concept,
                                    svg_diagram_path)
                            IN  /\ exercises' = updated.exercises
                                /\ renders' = Rendered(form, diagram, svg_diagram_path)
                                /\ response' =
                                       IF ~updated.ret
                                       THEN Render("exercises/edit.html",
                                                "An exercise with that name already exists, please choose a new one")
                                       ELSE Redirect("exercise_detail", "")
           ELSE /\ response' = Render("exercises/edit.html", "")
                /\ UNCHANGED <<exercises, renders, dir_exists, files>>
    /\ UNCHANGED <<session, practice_sessions, auth>>
    /\ RequestFrame

delete_exercise_route(exercise_id) ==
    /\ LET result == check_admin_access
       IN  IF result.kind # "None"
           THEN /\ response' = result
                /\ UNCHANGED exercises
           ELSE LET deleted == delete_exercise(exercise_id)
                IN  /\ exercises' = deleted.exercises
                    /\ response' = Redirect("browse_exercises",
                           IF deleted.ret THEN "Exercise deleted"
                           ELSE "Exercise not found")
    /\ UNCHANGED <<session, practice_sessions, auth, renders, dir_exists, files>>
    /\ RequestFrame

sessions ==
    /\ LET result == check_login_access
       IN  response' = IF result.kind # "None" THEN result
                       ELSE Render("sessions/list.html", "")
    /\ UNCHANGED <<session, exercises, practice_sessions, auth, renders,
                   dir_exists, files>>
    /\ RequestFrame

\* rowid is the id SQLite gives to the row when create_practice_session
\* inserts one.
create_session_route(method, exercise_id, difficulty_rating, rowid) ==
    /\ LET result == check_login_access
       IN  IF result.kind # "None"
           THEN /\ response' = result
                /\ UNCHANGED practice_sessions
           ELSE IF method = "POST"
           THEN LET created == create_practice_session(session["user_id"],
                                   exercise_id, difficulty_rating,
                                   sample_session.session_notes,
                                   sample_session.practice_date, rowid)
                IN  /\ created.ret => rowid \notin DOMAIN practice_sessions
                    /\ practice_sessions' = created.practice_sessions
                    /\ response' = IF ~created.ret
                                   THEN Render("sessions/create.html",
                                               "Exercise does not exist")
                                   ELSE Redirect("sessions", "")
           ELSE /\ response' = Render("sessions/create.html", "")
                /\ UNCHANGED practice_sessions
    /\ UNCHANGED <<session, exercises, auth, renders, dir_exists, files>>
    /\ RequestFrame

edit_session_route(session_id, method, difficulty_rating) ==
    /\ LET result == check_login_access
           practice_session == get_session_by_id(session_id)
       IN  IF result.kind # "None"
           THEN /\ response' = result
                /\ UNCHANGED practice_sessions
           ELSE IF practice_session.kind = "None"
           THEN /\ response' = Redirect("sessions", "Practice session does not exist")
                /\ UNCHANGED practice_sessions
           ELSE IF session["user_id"] # practice_session.value.user_id
           THEN /\ response' = Redirect("sessions", "Unauthorised edit attempt")
                /\ UNCHANGED practice_sessions
           ELSE IF method = "POST"
           THEN LET updated == update_practice_session(session_id,
                                   difficulty_rating,
                                   sample_session.session_notes,
                                   sample_session.practice_date)
                IN  /\ practice_sessions' = updated.practice_sessions
                    /\ response' = IF ~updated.ret
                                   THEN Render("sessions/edit.html",
                                               "Practice session does not exist")
                                   ELSE Redirect("sessions", "")
           ELSE /\ response' = Render("sessions/edit.html", "")
                /\ UNCHANGED practice_sessions
    /\ UNCHANGED <<session, exercises, auth, renders, dir_exists, files>>
    /\ RequestFrame

\* Mutant of delete_session_route: the owner of the practice session is
\* not compared with the session's user.
delete_session_route_any_user(session_id) ==
    /\ LET result == check_login_access
           practice_session == get_session_by_id(session_id)
       IN  IF result.kind # "None"
           THEN /\ response' = result
                /\ UNCHANGED practice_sessions
           ELSE IF practice_session.kind = "None"
           THEN /\ response' = Redirect("sessions", "Practice session does not exist")
                /\ UNCHANGED practice_sessions
           ELSE /\ practice_sessions' = delete_practice_session(session_id).practice_sessions
                /\ response' = Redirect("sessions", "Practice session deleted")
    /\ UNCHANGED <<session, exercises, auth, renders, dir_exists, files>>
    /\ RequestFrame

delete_session_route(session_id) ==
    /\ LET result == check_login_access
           practice_session == get_session_by_id(session_id)
       IN  IF result.kind # "None"
           THEN /\ response' = result
                /\ UNCHANGED practice_sessions
           ELSE IF practice_session.kind = "None"
           THEN /\ response' = Redirect("sessions", "Practice session does not exist")
                /\ UNCHANGED practice_sessions
           ELSE IF session["user_id"] # practice_session.value.user_id
           THEN /\ response' = Redirect("sessions", "Unauthorised edit attempt")
                /\ UNCHANGED practice_sessions
           ELSE /\ practice_sessions' = delete_practice_session(session_id).practice_sessions
                /\ response' = Redirect("sessions", "Practice session deleted")
    /\ UNCHANGED <<session, exercises, auth, renders, dir_exists, files>>
    /\ RequestFrame

----------------------------------------------------------------------------
(* The caller: one call on arguments drawn from the bounded input sets,    *)
(* and possibly a second call on the value the first returned.             *)

Pitches == (0 - PitchMargin)..(127 + PitchMargin)

StringNums == (0 - StringMargin)..(5 + StringMargin)

\* After the import of pitch_logic.py: both tables are built, nothing called.
Init ==
    /\ note_map = NoteMap
    /\ guitar_string_map =
           [i \in 0..5 |-> note_to_midi(open_string_notes[i + 1]).value]
    /\ pc = "call"
    /\ ret = NoReturn
    /\ ret2 = NoReturn
    /\ NoDiagramCall
    /\ NoRequest
    /\ \/ /\ op \in {"note_to_midi", "note_to_guitar_positions"}
          /\ \E n \in 0..MaxLen : note \in StringsOfLen(n)
          /\ midi_number = 0
          /\ string_num = 0
          /\ prefer_sharps = TRUE
       \/ /\ op = "midi_to_note"
          /\ note = << >>
          /\ midi_number \in Pitches
          /\ string_num = 0
          /\ prefer_sharps \in BOOLEAN
       \/ /\ op = "midi_to_string_fret"
          /\ note = << >>
          /\ midi_number \in Pitches
          /\ string_num \in StringNums
          /\ prefer_sharps = TRUE

CallNoteToMidi ==
    /\ pc = "call"
    /\ op = "note_to_midi"
    /\ ret' = note_to_midi(note)
    /\ pc' = "returned"
    /\ UNCHANGED <<note_map, guitar_string_map, op, note, midi_number,
                   string_num, prefer_sharps, ret2>>
    /\ UNCHANGED <<diagram_vars, app_vars>>

CallMidiToNote ==
    /\ pc = "call"
    /\ op = "midi_to_note"
    /\ ret' = midi_to_note(midi_number, prefer_sharps)
    /\ pc' = "returned"
    /\ UNCHANGED <<note_map, guitar_string_map, op, note, midi_number,
                   string_num, prefer_sharps, ret2>>
    /\ UNCHANGED <<diagram_vars, app_vars>>

CallMidiToStringFret ==
    /\ pc = "call"
    /\ op = "midi_to_string_fret"
    /\ ret' = midi_to_string_fret(string_num, midi_number)
    /\ pc' = "returned"
    /\ UNCHANGED <<note_map, guitar_string_map, op, note, midi_number,
                   string_num, prefer_sharps, ret2>>
    /\ UNCHANGED <<diagram_vars, app_vars>>

CallNoteToGuitarPositions ==
    /\ pc = "call"
    /\ op = "note_to_guitar_positions"
    /\ ret' = note_to_guitar_positions(note)
    /\ pc' = "returned"
    /\ UNCHANGED <<note_map, guitar_string_map, op, note, midi_number,
                   string_num, prefer_sharps, ret2>>
    /\ UNCHANGED <<diagram_vars, app_vars>>

\* midi_to_note on the number note_to_midi returned.
FormatReturned ==
    /\ pc = "returned"
    /\ op = "note_to_midi"
    /\ ret.kind = "ok"
    /\ \E sharps \in BOOLEAN :
          /\ prefer_sharps' = sharps
          /\ ret2' = midi_to_note(ret.value, sharps)
    /\ pc' = "chained"
    /\ UNCHANGED <<note_map, guitar_string_map, op, note, midi_number,
                   string_num, ret>>
    /\ UNCHANGED <<diagram_vars, app_vars>>

\* note_to_midi on the string midi_to_note returned.
ParseReturned ==
    /\ pc = "returned"
    /\ op = "midi_to_note"
    /\ ret.kind = "ok"
    /\ ret2' = note_to_midi(ret.value)
    /\ pc' = "chained"
    /\ UNCHANGED <<note_map, guitar_string_map, op, note, midi_number,
                   string_num, prefer_sharps, ret>>
    /\ UNCHANGED <<diagram_vars, app_vars>>

Next ==
    \/ CallNoteToMidi
    \/ CallMidiToNote
    \/ CallMidiToStringFret
    \/ CallNoteToGuitarPositions
    \/ FormatReturned
    \/ ParseReturned

Spec == Init /\ [][Next]_vars

----------------------------------------------------------------------------
(* One create_diagram call on every input string *)

\* The fret ranges given to create_diagram: the default, a wider one, and
\* one reaching below 0.
FretRanges == {default_fret_range, <<0, 24>>, <<0 - 5, 3>>}

\* The pitch logic is imported and no function of it is being called.
PitchLogicImported ==
    /\ note_map = NoteMap
    /\ guitar_string_map =
           [i \in 0..5 |-> note_to_midi(open_string_notes[i + 1]).value]
    /\ op = "create_diagram"
    /\ note = << >>
    /\ midi_number = 0
    /\ string_num = 0
    /\ prefer_sharps = TRUE
    /\ pc = "call"
    /\ ret = NoReturn
    /\ ret2 = NoReturn

\* Thread t1 has entered create_diagram; the diagram directory is missing,
\* or exists and holds an earlier file of the same name.
SingleInit ==
    /\ PitchLogicImported
    /\ \E n \in 0..MaxLen : \E target_note \in StringsOfLen(n) :
       \E fret_range \in FretRanges :
          /\ frames = [t \in Threads |->
                 IF t = "t1" THEN EnteredFrame(target_note, fret_range)
                 ELSE IdleFrame]
          /\ \/ dir_exists = FALSE /\ files = << >>
             \/ /\ dir_exists = TRUE
                /\ files = Write(<< >>, save_name(target_note), Drawing(<< >>))
    /\ exported = << >>
    /\ io_failed = FALSE
    /\ calls_left = 0
    /\ NoRequest

SingleNext ==
    \E t \in Threads : Resolve(t) \/ Mark(t) \/ Mkdir(t) \/ Export(t)

SingleSpec == SingleInit /\ [][SingleNext]_vars

----------------------------------------------------------------------------
(* Concurrent create_diagram calls *)

\* create_diagram calls made in one behaviour.
MaxCalls == 3

E2 == <<"E", "2">>
E3 == <<"E", "3">>
Db4 == <<"D", "b", "4">>
H4 == <<"H", "4">>

\* Target notes of the concurrent calls: E2 and E3 share the note name, the
\* drawing of Db4 depends on the fret range, H4 is rejected.
DiagramTargets == {E2, E3, Db4, H4}

DiagramRanges == {default_fret_range, <<0, 24>>}

DiagramInit ==
    /\ PitchLogicImported
    /\ frames = [t \in Threads |-> IdleFrame]
    /\ dir_exists = FALSE
    /\ files = << >>
    /\ exported = << >>
    /\ io_failed = FALSE
    /\ calls_left = MaxCalls
    /\ NoRequest

DiagramNext ==
    \E t \in Threads :
        \/ \E target_note \in DiagramTargets : \E fret_range \in DiagramRanges :
               Begin(t, target_note, fret_range)
        \/ Resolve(t)
        \/ Mark(t)
        \/ Mkdir(t)
        \/ Export(t)

DiagramSpec == DiagramInit /\ [][DiagramNext]_vars

----------------------------------------------------------------------------
(* Calls of the functions of db_operations.py, one after the other *)

\* The diagram path given to create_exercise and update_exercise; << >> is
\* update_exercise's default, None.
SvgPaths == {<<"/static/diagrams/", "E2.svg">>}

\* The ratings given: 0 and 6 are outside 1..5.
Ratings == {0, 3, 5, 6}

\* The exercise ids given: every id of the table and one it never holds.
ExerciseIdArgs == ExerciseIds \cup {MaxExercises + 1}

SessionIdArgs == SessionIds \cup {MaxSessions + 1}

DbInit ==
    /\ note_map = NoteMap
    /\ guitar_string_map =
           [i \in 0..5 |-> note_to_midi(open_string_notes[i + 1]).value]
    /\ op = "db_operations"
    /\ note = << >>
    /\ midi_number = 0
    /\ string_num = 0
    /\ prefer_sharps = TRUE
    /\ pc = "call"
    /\ ret = NoReturn
    /\ ret2 = NoReturn
    /\ NoDiagramCall
    /\ DatabaseSeeded
    /\ session = << >>
    /\ response = None
    /\ auth = [last |-> "none", changed |-> "none"]
    /\ renders = << >>

\* What a call of db_operations.py leaves alone besides the two tables.
DbFrame ==
    UNCHANGED <<note_map, guitar_string_map, op, note, midi_number, string_num,
                prefer_sharps, pc, ret2, diagram_vars, session, response,
                auth, renders>>

CallCreateExercise(title, svg_diagram_path, rowid) ==
    LET r == create_exercise(title, sample_exercise.description,
                             sample_exercise.note_range,
                             sample_exercise.musical_concept,
                             svg_diagram_path, 1, rowid)
    IN  /\ r.ret => rowid \notin DOMAIN exercises
        /\ exercises' = r.exercises
        /\ ret' = Ok(r.ret)
        /\ UNCHANGED practice_sessions
        /\ DbFrame

CallUpdateExercise(exercise_id, title, svg_diagram_path) ==
    LET r == update_exercise(exercise_id, title, sample_exercise.description,
                             sample_exercise.note_range,
                             sample_exercise.musical_concept, svg_diagram_path)
    IN  /\ exercises' = r.exercises
        /\ ret' = Ok(r.ret)
        /\ UNCHANGED practice_sessions
        /\ DbFrame

CallDeleteExercise(exercise_id) ==
    LET r == delete_exercise(exercise_id)
    IN  /\ exercises' = r.exercises
        /\ ret' = Ok(r.ret)
        /\ UNCHANGED practice_sessions
        /\ DbFrame

CallCreatePracticeSession(user_id, exercise_id, difficulty_rating, rowid) ==
    LET r == create_practice_session(user_id, exercise_id, difficulty_rating,
                                     sample_session.session_notes,
                                     sample_session.practice_date, rowid)
    IN  /\ r.ret => rowid \notin DOMAIN practice_sessions
        /\ practice_sessions' = r.practice_sessions
        /\ ret' = Ok(r.ret)
        /\ UNCHANGED exercises
        /\ DbFrame

CallUpdatePracticeSession(session_id, difficulty_rating) ==
    LET r == update_practice_session(session_id, difficulty_rating,
                                     sample_session.session_notes,
                                     sample_session.practice_date)
    IN  /\ practice_sessions' = r.practice_sessions
        /\ ret' = Ok(r.ret)
        /\ UNCHANGED exercises
        /\ DbFrame

CallDeletePracticeSession(session_id) ==
    LET r == delete_practice_session(session_id)
    IN  /\ practice_sessions' = r.practice_sessions
        /\ ret' = Ok(r.ret)
        /\ UNCHANGED exercises
        /\ DbFrame

DbNext ==
    \/ \E title \in Titles : \E svg_diagram_path \in SvgPaths :
       \E rowid \in ExerciseIds :
           CallCreateExercise(title, svg_diagram_path, rowid)
    \/ \E exercise_id \in ExerciseIdArgs : \E title \in Titles :
       \E svg_diagram_path \in SvgPaths \cup {<< >>} :
           CallUpdateExercise(exercise_id, title, svg_diagram_path)
    \/ \E exercise_id \in ExerciseIdArgs : CallDeleteExercise(exercise_id)
    \/ \E user_id \in {2, 3} : \E exercise_id \in ExerciseIdArgs :
       \E difficulty_rating \in Ratings : \E rowid \in SessionIds :
           CallCreatePracticeSession(user_id, exercise_id, difficulty_rating, rowid)
    \/ \E session_id \in SessionIdArgs : \E difficulty_rating \in Ratings :
           CallUpdatePracticeSession(session_id, difficulty_rating)
    \/ \E session_id \in SessionIdArgs : CallDeletePracticeSession(session_id)

DbSpec == DbInit /\ [][DbNext]_vars

----------------------------------------------------------------------------
(* Requests of one client to the routes of app.py, one after the other *)

Methods == {"GET", "POST"}

\* The usernames and passwords posted to /login: those of the admin and of
\* a user, and a wrong password.
Credentials ==
    {<<"admin", "admin123">>, <<"John_guitarist", "password123">>,
     <<"admin", "password123">>}

\* The forms posted to the exercise routes: 'H' is no note name, and the
\* end octave is the root octave or the one above.
NoteForms ==
    [title : Titles,
     description : {sample_exercise.description},
     musical_concept : {sample_exercise.musical_concept},
     root_note_name : {<<"C", "#">>, <<"H">>},
     root_note_octave : {<<"2">>},
     end_note_octave : {<<"2">>, <<"3">>}]

\* The server has started on the database of DatabaseSeeded, no client is
\* logged in and no diagram was made.
AppInit ==
    /\ note_map = NoteMap
    /\ guitar_string_map =
           [i \in 0..5 |-> note_to_midi(open_string_notes[i + 1]).value]
    /\ op = "app"
    /\ note = << >>
    /\ midi_number = 0
    /\ string_num = 0
    /\ prefer_sharps = TRUE
    /\ pc = "call"
    /\ ret = NoReturn
    /\ ret2 = NoReturn
    /\ NoDiagramCall
    /\ DatabaseSeeded
    /\ session = << >>
    /\ response = None
    /\ auth = [last |-> "none", changed |-> "none"]
    /\ renders = << >>

\* The file system lets the diagram be written, refuses the directory, or
\* fails the export with the file as it was or truncated.
RouteIo == {io \in IoOutcomes : io.mkdir \/ io.export = "ok"}

ExerciseNext ==
    \/ \E method \in Methods : \E c \in Credentials : login(method, c[1], c[2])
    \/ logout
    \/ \E method \in Methods : \E form \in NoteForms : \E io \in RouteIo :
       \E rowid \in ExerciseIds :
           create_exercise_route(method, form, io, rowid)
    \/ \E exercise_id \in ExerciseIdArgs : \E method \in Methods :
       \E form \in NoteForms : \E io \in RouteIo :
           edit_exercise_route(exercise_id, method, form, io)
    \/ \E exercise_id \in ExerciseIdArgs : delete_exercise_route(exercise_id)

ExerciseSpec == AppInit /\ [][ExerciseNext]_vars

\* The one form the exercise routes are posted beside the practice-session
\* routes, and the file system that lets its diagram be written.
PlainForms ==
    {form \in NoteForms : /\ form.title = "E Minor Pentatonic"
                          /\ form.root_note_name = <<"C", "#">>
                          /\ form.end_note_octave = <<"2">>}

PlainIo == {io \in IoOutcomes : io.mkdir /\ io.export = "ok"}

\* A request to a route that begins with check_admin_access.
AdminRequest ==
    \/ \E method \in Methods : \E form \in PlainForms : \E io \in PlainIo :
       \E rowid \in ExerciseIds :
           create_exercise_route(method, form, io, rowid)
    \/ \E exercise_id \in ExerciseIdArgs : \E method \in Methods :
       \E form \in PlainForms : \E io \in PlainIo :
           edit_exercise_route(exercise_id, method, form, io)
    \/ \E exercise_id \in ExerciseIdArgs : delete_exercise_route(exercise_id)

\* The exercise ids posted to /sessions/create: the first exercise and an
\* id the table never holds.
SessionExerciseArgs == {1, MaxExercises + 1}

\* The ratings posted to the practice-session routes: 6 is outside 1..5.
SessionRatings == {5, 6}

\* A request to a route that begins with check_login_access.
LoginRequest ==
    \/ sessions
    \/ \E method \in Methods : \E exercise_id \in SessionExerciseArgs :
       \E difficulty_rating \in SessionRatings : \E rowid \in SessionIds :
           create_session_route(method, exercise_id, difficulty_rating, rowid)
    \/ \E session_id \in SessionIdArgs : \E method \in Methods :
       \E difficulty_rating \in SessionRatings :
           edit_session_route(session_id, method, difficulty_rating)
    \/ \E session_id \in SessionIdArgs : delete_session_route(session_id)

AppNext ==
    \/ \E method \in Methods : \E c \in Credentials : login(method, c[1], c[2])
    \/ logout
    \/ LoginRequest
    \/ AdminRequest

AppSpec == AppInit /\ [][AppNext]_vars

----------------------------------------------------------------------------
(* Properties of note_to_midi and midi_to_note *)

Returned == pc # "call"

ValueErrorWith(r, m) == r.kind = "raise" /\ r.exc = "ValueError" /\ r.msg = m

\* The input is an alias of note_map followed by one ASCII digit.
AliasThenDigit ==
    /\ Len(note) >= 2
    /\ note[Len(note)] \in AsciiDigit
    /\ SubSeq(note, 1, Len(note) - 1) \in DOMAIN note_map

InputAlias == SubSeq(note, 1, Len(note) - 1)

InputDigit == note[Len(note)]

\* C1: for every pitch p in 0..127 and either preference,
\* note_to_midi(midi_to_note(p, prefer_sharps)) returns p.
RoundTrip ==
    (op = "midi_to_note" /\ pc = "chained" /\ midi_number \in 0..127)
        => (ret2.kind = "ok" /\ ret2.value = midi_number)

\* C2: for every alias a of note_map (21 keys) and every octave digit d in
\* 0..9, note_to_midi(a + d) returns (d + 1) * 12 + note_map[a]; C4 gives 60.
AliasDigitPitch ==
    (op = "note_to_midi" /\ Returned) =>
        /\ Cardinality(DOMAIN note_map) = 21
        /\ AliasThenDigit =>
               \E d \in 0..9 :
                   /\ InputDigit = DigitChar[d]
                   /\ ret.kind = "ok"
                   /\ ret.value = (d + 1) * 12 + note_map[InputAlias]
        /\ note = <<"C", "4">> => (ret.kind = "ok" /\ ret.value = 60)

AliasDigitPitchWitness ==
    /\ op = "note_to_midi"
    /\ pc = "returned"
    /\ note = <<"B", "#", "9">>
    /\ ret.kind = "ok"
    /\ ret.value = 120

\* The text is an optional sign followed by one or more ASCII digits.
SignedIntegerText(t) ==
    /\ Len(t) >= 1
    /\ LET digits == IF t[1] \in {"-", "+"} THEN Tail(t) ELSE t
       IN  /\ Len(digits) >= 1
           /\ \A i \in 1..Len(digits) : digits[i] \in AsciiDigit

RECURSIVE NatOfText(_)
NatOfText(t) ==
    IF Len(t) = 0 THEN 0
    ELSE 10 * NatOfText(SubSeq(t, 1, Len(t) - 1)) + DigitValue[t[Len(t)]]

\* The integer a signed integer text denotes.
IntegerOfText(t) ==
    IF t[1] = "-" THEN 0 - NatOfText(Tail(t))
    ELSE IF t[1] = "+" THEN NatOfText(Tail(t))
    ELSE NatOfText(t)

\* C3: for every alias a and every integer octave o written with more than
\* one character ("10", "-1", "+2"), note_to_midi(a + str(o)) returns
\* (o + 1) * 12 + note_map[a].
SignedMultiDigitOctave ==
    (op = "note_to_midi" /\ Returned) =>
        \A k \in 1..2 :
            LET a    == SubSeq(note, 1, k)
                text == SubSeq(note, k + 1, Len(note))
            IN  (/\ Len(note) >= k + 2
                 /\ a \in DOMAIN note_map
                 /\ SignedIntegerText(text))
                    => /\ ret.kind = "ok"
                       /\ ret.value = (IntegerOfText(text) + 1) * 12 + note_map[a]

\* C4: two aliases of the same pitch class followed by the same octave digit
\* are given the same MIDI number by note_to_midi.
EnharmonicSamePitch ==
    (op = "note_to_midi" /\ Returned) =>
        (AliasThenDigit =>
            \A b \in DOMAIN note_map :
                note_map[b] = note_map[InputAlias] =>
                    LET other == note_to_midi(Append(b, InputDigit))
                    IN  /\ ret.kind = "ok"
                        /\ other.kind = "ok"
                        /\ other.value = ret.value)

EnharmonicSamePitchWitness ==
    /\ op = "note_to_midi"
    /\ pc = "returned"
    /\ note = <<"B", "#", "4">>
    /\ ret.kind = "ok"
    /\ ret.value = 60

\* C5: an input whose last character is a decimal digit and whose prefix is
\* no key of note_map fails with ValueError 'Invalid note name'.
UnknownNameRaises ==
    (/\ op = "note_to_midi"
     /\ Returned
     /\ Len(note) >= 1
     /\ note[Len(note)] \in Digit
     /\ SubSeq(note, 1, Len(note) - 1) \notin DOMAIN note_map)
        => ValueErrorWith(ret, "Invalid note name")

UnknownNameRaisesWitness ==
    /\ op = "note_to_midi"
    /\ pc = "returned"
    /\ note = <<"H", "4">>
    /\ ValueErrorWith(ret, "Invalid note name")

\* C6: an input whose trailing octave part is no integer, the empty string
\* included, fails with ValueError 'Invalid note syntax', and no input makes
\* note_to_midi fail with another kind of error.
BadOctaveRaisesSyntaxError ==
    (op = "note_to_midi" /\ Returned) =>
        /\ (Len(note) = 0 \/ note[Len(note)] \notin Digit)
               => ValueErrorWith(ret, "Invalid note syntax")
        /\ ret.kind = "raise" => ret.exc = "ValueError"

\* C7: every value note_to_midi returns is in 0..127, so midi_to_note never
\* fails on it.
ParsedPitchInMidiRange ==
    /\ (op = "note_to_midi" /\ Returned /\ ret.kind = "ok")
           => (0 <= ret.value /\ ret.value <= 127)
    /\ (op = "note_to_midi" /\ pc = "chained") => ret2.kind = "ok"

\* C8: midi_to_note returns a string for every p in 0..127 and fails with
\* ValueError for every p below 0 or above 127.
FormatTotalOnMidiRange ==
    (op = "midi_to_note" /\ Returned) =>
        IF 0 <= midi_number /\ midi_number <= 127
        THEN ret.kind = "ok" /\ Len(ret.value) >= 2
        ELSE ValueErrorWith(ret, "outside valid range (0-127)")

FormatTotalOnMidiRangeWitness ==
    /\ op = "midi_to_note"
    /\ pc = "returned"
    /\ midi_number = 128
    /\ ret.kind = "raise"

SharpList ==
    << <<"C">>, <<"C", "#">>, <<"D">>, <<"D", "#">>, <<"E">>, <<"F">>,
       <<"F", "#">>, <<"G">>, <<"G", "#">>, <<"A">>, <<"A", "#">>, <<"B">> >>

FlatList ==
    << <<"C">>, <<"D", "b">>, <<"D">>, <<"E", "b">>, <<"E">>, <<"F">>,
       <<"G", "b">>, <<"G">>, <<"A", "b">>, <<"A">>, <<"B", "b">>, <<"B">> >>

\* The octaves of the pitches 0..127, as written: the entry for octave o is
\* at index o + 2.
OctaveText ==
    << <<"-", "1">>, <<"0">>, <<"1">>, <<"2">>, <<"3">>, <<"4">>, <<"5">>,
       <<"6">>, <<"7">>, <<"8">>, <<"9">> >>

NaturalClasses == {0, 2, 4, 5, 7, 9, 11}

\* C9: for p in 0..127, midi_to_note(p, prefer_sharps) is the name of pitch
\* class p % 12, from the sharp list or the flat list as prefer_sharps says,
\* followed by the octave (p // 12) - 1; the two preferences give the same
\* string exactly for the seven natural pitch classes.
FormatNameAndOctave ==
    (op = "midi_to_note" /\ Returned /\ midi_number \in 0..127) =>
        LET names == IF prefer_sharps THEN SharpList ELSE FlatList
            other == midi_to_note(midi_number, ~prefer_sharps)
        IN  /\ ret.kind = "ok"
            /\ ret.value = names[(midi_number % 12) + 1]
                             \o OctaveText[(midi_number \div 12) + 1]
            /\ other.kind = "ok"
            /\ (other.value = ret.value) <=> (midi_number % 12 \in NaturalClasses)

FormatNameAndOctaveWitness ==
    /\ op = "midi_to_note"
    /\ pc = "returned"
    /\ midi_number = 1
    /\ ~prefer_sharps
    /\ ret.kind = "ok"
    /\ ret.value = <<"D", "b", "-", "1">>

----------------------------------------------------------------------------
(* Properties of note_to_guitar_positions *)

\* C10: for every target note that note_to_midi accepts,
\* note_to_guitar_positions returns 6 entries, the i-th with string index i
\* for i = 0..5, with no entry left out when its fret offset is negative.
SixPositionsInStringOrder ==
    (/\ op = "note_to_guitar_positions"
     /\ Returned
     /\ note_to_midi(note).kind = "ok")
        => /\ ret.kind = "ok"
           /\ Len(ret.value) = 6
           /\ \A i \in 0..5 : ret.value[i + 1][1] = i

SixPositionsInStringOrderWitness ==
    /\ op = "note_to_guitar_positions"
    /\ pc = "returned"
    /\ note = <<"C", "0">>
    /\ ret.kind = "ok"
    /\ Len(ret.value) = 6
    /\ \A i \in 1..6 : ret.value[i][2] < 0

\* The open pitches of the standard tuning E2 A2 D3 G3 B3 E4, strings 0..5.
StandardTuning == <<40, 45, 50, 55, 59, 64>>

\* C11: the default tuning has open pitches 40, 45, 50, 55, 59, 64 for the
\* strings 0..5; for every accepted target and every string i the fret
\* offset returned is note_to_midi(target) minus the open pitch of string i;
\* for E4 the offsets are 24, 19, 14, 9, 5, 0.
FretIsTargetMinusOpen ==
    /\ \A i \in 0..5 : guitar_string_map[i] = StandardTuning[i + 1]
    /\ (/\ op = "note_to_guitar_positions"
        /\ Returned
        /\ note_to_midi(note).kind = "ok")
           => /\ ret.kind = "ok"
              /\ \A i \in 0..5 :
                     ret.value[i + 1][2] =
                         note_to_midi(note).value - StandardTuning[i + 1]
              /\ note = <<"E", "4">> =>
                     [i \in 1..6 |-> ret.value[i][2]] = <<24, 19, 14, 9, 5, 0>>

FretIsTargetMinusOpenWitness ==
    /\ op = "note_to_guitar_positions"
    /\ pc = "returned"
    /\ note = <<"E", "4">>
    /\ ret.kind = "ok"
    /\ ret.value = <<<<0, 24>>, <<1, 19>>, <<2, 14>>, <<3, 9>>, <<4, 5>>, <<5, 0>>>>

----------------------------------------------------------------------------
(* Properties of one create_diagram call *)

\* The create_diagram call of thread t1.
Call == frames["t1"]

\* The call's target note is one note_to_midi accepts.
Accepted == note_to_midi(Call.target_note).kind = "ok"

\* The call has placed its markers.
Marked == Call.pc \in {"mkdir", "export"} \/ (Call.pc = "idle" /\ Call.mkdirs > 0)

\* The fret offset of the call's target note on string i of the standard
\* tuning.
Offset(i) == note_to_midi(Call.target_note).value - StandardTuning[i + 1]

InRange(fret, fret_range) == fret_range[1] <= fret /\ fret <= fret_range[2]

MarkedStrings == {Call.fb[k].string_no : k \in 1..Len(Call.fb)}

\* C12: create_diagram places a marker for a resolved position if and only
\* if lower <= fret offset <= upper; with the default range (0, 12) no
\* marker is placed for an offset below 0 or above 12, and for C4 string 0
\* (offset 20) gets none.
MarkerIffInFretRange ==
    (Marked /\ Accepted) =>
        /\ \A i \in 0..5 :
               (i + 1 \in MarkedStrings) <=> InRange(Offset(i), Call.fret_range)
        /\ Len(Call.fb) = Cardinality(MarkedStrings)
        /\ Call.fret_range = <<0, 12>> =>
               \A i \in 0..5 :
                   (Offset(i) < 0 \/ Offset(i) > 12) => i + 1 \notin MarkedStrings
        /\ (Call.target_note = <<"C", "4">> /\ Call.fret_range = <<0, 12>>) =>
               (Offset(0) = 20 /\ 1 \notin MarkedStrings)

MarkerIffInFretRangeWitness ==
    /\ Call.target_note = <<"C", "4">>
    /\ Call.fret_range = <<0, 12>>
    /\ Call.pc = "mkdir"
    /\ MarkedStrings = {3, 4, 5}

\* The markers create_diagram places for a target note and a fret range.
MarkersOf(target_note, fret_range) ==
    add_notes(<< >>, note_to_guitar_positions(target_note).value, 1,
              note_name_only(target_note), fret_range)

\* C14: for each position (string index, fret offset) that passes the filter
\* one marker is placed at (string index + 1, fret offset): markers of the
\* same string placed for different fret offsets are different markers.
MarkerAtStringAndFret ==
    (Marked /\ Accepted) =>
        /\ Len(Call.fb) = Cardinality({i \in 0..5 : InRange(Offset(i), Call.fret_range)})
        /\ \A k \in 1..Len(Call.fb) :
               InRange(Offset(Call.fb[k].string_no - 1), Call.fret_range)
        /\ \A d \in AsciiDigit :
               LET other  == Append(note_name_only(Call.target_note), d)
                   shift  == note_to_midi(other).value
                               - note_to_midi(Call.target_note).value
                   others == MarkersOf(other, Call.fret_range)
               IN  \A k \in 1..Len(Call.fb) : \A j \in 1..Len(others) :
                       (Call.fb[k].string_no = others[j].string_no /\ shift # 0)
                           => Call.fb[k] # others[j]

\* C15: the label of every marker is the bare note name of the target, an
\* alias of note_map with no octave digit or sign in it, the same for all
\* markers of the diagram.
MarkerLabelIsNoteName ==
    (Marked /\ Accepted) =>
        \A k \in 1..Len(Call.fb) :
            LET label == Call.fb[k].note
            IN  /\ label \in DOMAIN note_map
                /\ \A i \in 1..Len(label) : label[i] \notin Digit \cup {"-", "+"}
                /\ Call.target_note = Append(label, Call.target_note[Len(Call.target_note)])
                /\ label = Call.fb[1].note

MarkerLabelIsNoteNameWitness ==
    /\ Call.target_note = <<"D", "b", "4">>
    /\ Call.fret_range = <<0, 12>>
    /\ Call.pc = "export"
    /\ Len(Call.fb) = 3
    /\ \A k \in 1..3 : Call.fb[k].note = <<"D", "b">>

\* The notes note_to_midi accepts that are an alias and one ASCII digit.
AliasDigitNotes == {Append(a, d) : a \in DOMAIN NoteMap, d \in AsciiDigit}

\* C16: the path a successful create_diagram returns is DIAGRAM_PATH /
\* '<target_note>.svg', whatever the fret range is; different accepted note
\* strings (C#4 and Db4 too) have different paths; the returned path is the
\* file that was written.
PathIsTargetNoteSvg ==
    (Call.pc = "idle" /\ Call.ret.kind = "ok") =>
        /\ Call.ret.value.dir = <<"static", "diagrams">>
        /\ Call.ret.value.name = Call.target_note \o <<".svg">>
        /\ Call.ret.value \in DOMAIN files
        /\ files[Call.ret.value] = Drawing(Call.fb)
        /\ \A other \in AliasDigitNotes :
               other # Call.target_note => save_name(other) # Call.ret.value
        /\ Call.target_note = <<"C", "#", "4">> =>
               save_name(<<"D", "b", "4">>) # Call.ret.value

PathIsTargetNoteSvgWitness ==
    /\ Call.target_note = <<"C", "#", "4">>
    /\ Call.fret_range = <<0, 24>>
    /\ Call.pc = "idle"
    /\ Call.ret.kind = "ok"
    /\ Call.ret.value.name = <<"C", "#", "4", ".svg">>
    /\ files[Call.ret.value] = Drawing(Call.fb)

\* C18: a create_diagram call whose target note note_to_midi rejects fails
\* with note_to_midi's failure before any file system step: the directory is
\* not created and the files and their contents stay as they were.
RejectedTargetTouchesNoFile ==
    [][(Call.pc = "resolve" /\ ~Accepted) =>
          /\ dir_exists' = dir_exists
          /\ files' = files
          /\ frames'["t1"].pc = "idle"
          /\ frames'["t1"].ret.kind = "raise"
          /\ frames'["t1"].ret = note_to_midi(Call.target_note)
          /\ frames'["t1"].mkdirs = 0
          /\ frames'["t1"].exports = 0]_vars

RejectedTargetTouchesNoFileWitness ==
    /\ Call.target_note = <<"H", "4">>
    /\ Call.pc = "idle"
    /\ ValueErrorWith(Call.ret, "Invalid note name")
    /\ ~dir_exists
    /\ files = << >>

----------------------------------------------------------------------------
(* Properties of midi_to_string_fret *)

\* C13: midi_to_string_fret fails with ValueError for every string_num
\* outside 0..5 and for none inside, whatever the target pitch is.
StringNumberChecked ==
    (op = "midi_to_string_fret" /\ Returned) =>
        IF 0 <= string_num /\ string_num <= 5
        THEN ret.kind = "ok" /\ ret.value[1] = string_num
        ELSE ValueErrorWith(ret, "String number outside 0 - 5 range")

StringNumberCheckedWitness ==
    /\ op = "midi_to_string_fret"
    /\ pc = "returned"
    /\ string_num = 6
    /\ midi_number = 64
    /\ ret.kind = "raise"

----------------------------------------------------------------------------
(* Properties of sequences of create_diagram calls, concurrent or not *)

Last(s) == s[Len(s)]

RenderedTargets == DOMAIN exported

\* C17: after successful create_diagram calls the diagram directory holds
\* exactly one file per distinct target note rendered, with the content of
\* the latest call for that note; and the mkdir step succeeds when the
\* directory already exists.
OneFilePerRenderedTarget ==
    /\ [](~io_failed =>
            /\ DOMAIN files = {save_name(x) : x \in RenderedTargets}
            /\ Cardinality(DOMAIN files) = Cardinality(RenderedTargets)
            /\ \A x \in RenderedTargets :
                   files[save_name(x)] = Drawing(Last(exported[x])))
    /\ [][\A t \in Threads :
              (dir_exists /\ frames[t].pc = "mkdir" /\ frames'[t] # frames[t])
                  => (frames'[t].pc = "export" /\ dir_exists')]_vars

OneFilePerRenderedTargetWitness ==
    /\ ~io_failed
    /\ Db4 \in RenderedTargets
    /\ Len(exported[Db4]) = 2
    /\ exported[Db4][1] # exported[Db4][2]
    /\ E2 \in RenderedTargets
    /\ Cardinality(DOMAIN files) = 2
    /\ files[save_name(Db4)] = Drawing(exported[Db4][2])

\* C19: in one create_diagram call the mkdir and the export are each
\* attempted at most once; when either fails the failure is the outcome of
\* the call, nothing more is attempted, the export is not attempted after a
\* failed mkdir, and no path is returned.
AtMostOneAttempt ==
    \A t \in Threads :
        LET f == frames[t]
        IN  /\ f.mkdirs <= 1
            /\ f.exports <= 1
            /\ f.exports = 1 => (f.mkdirs = 1 /\ f.pc = "idle")
            /\ f.pc = "export" => (f.mkdirs = 1 /\ f.exports = 0)
            /\ (f.ret.kind = "raise" /\ f.ret.exc = "OSError") =>
                   /\ f.pc = "idle"
                   /\ f.ret.msg = "mkdir" => (f.mkdirs = 1 /\ f.exports = 0)
                   /\ f.ret.msg = "export" => (f.mkdirs = 1 /\ f.exports = 1)
            /\ (f.pc = "idle" /\ f.mkdirs = 1 /\ f.exports = 0) =>
                   (f.ret.kind = "raise" /\ f.ret.exc = "OSError")
            /\ f.ret.kind = "ok" => (f.mkdirs = 1 /\ f.exports = 1)

AtMostOneAttemptWitness ==
    /\ frames["t1"].pc = "idle"
    /\ frames["t1"].ret.kind = "raise"
    /\ frames["t1"].ret.exc = "OSError"
    /\ frames["t1"].ret.msg = "mkdir"
    /\ frames["t1"].exports = 0
    /\ frames["t2"].pc = "idle"
    /\ frames["t2"].ret.kind = "raise"
    /\ frames["t2"].ret.exc = "OSError"
    /\ frames["t2"].ret.msg = "export"

\* C20: when two create_diagram calls for the same target note run
\* concurrently, both return the same path, one file exists for it, and its
\* content is the one exported by the export that finished last; nothing
\* keeps both calls from being at the export at the same time.
LastWriterWins ==
    \A t \in Threads :
        (frames[t].overlapped /\ ~io_failed) =>
            LET f    == frames[t]
                g    == frames[Other(t)]
                path == save_name(f.target_note)
            IN  /\ f.ret.kind = "ok"
                /\ f.ret.value = path
                /\ (g.target_note = f.target_note /\ g.ret.kind = "ok")
                       => g.ret.value = f.ret.value
                /\ path \in DOMAIN files
                /\ Cardinality({p \in DOMAIN files :
                                   SubSeq(p.name, 1, Len(f.target_note))
                                       = f.target_note}) = 1
                /\ files[path] = Drawing(Last(exported[f.target_note]))
                /\ (g.pc = "idle" /\ g.target_note = f.target_note
                    /\ g.ret.kind = "ok" /\ ~g.overlapped)
                       => files[path] = Drawing(g.fb)

LastWriterWinsWitness ==
    /\ ~io_failed
    /\ frames["t1"].overlapped
    /\ frames["t1"].ret.kind = "ok"
    /\ frames["t2"].pc = "idle"
    /\ frames["t2"].ret.kind = "ok"
    /\ frames["t2"].target_note = frames["t1"].target_note
    /\ frames["t2"].fb # frames["t1"].fb
    /\ files[save_name(frames["t1"].target_note)] = Drawing(frames["t2"].fb)
    /\ calls_left = MaxCalls - 2

----------------------------------------------------------------------------
(* Properties of the files create_diagram writes *)

\* The file names '<alias><digit>.svg' of the 21 aliases and 10 digits.
AliasDigitFileNames == {n \o <<".svg">> : n \in AliasDigitNotes}

\* C30: for every input string (path separators and dots included)
\* create_diagram reaches its export only when the string is an alias of
\* note_map followed by one digit 0..9; the file is directly inside
\* DIAGRAM_PATH and its name is one of the 210 names '<alias><digit>.svg'.
WritesOnlyAliasDigitFiles ==
    /\ Cardinality(AliasDigitFileNames) = 210
    /\ Call.exports > 0 =>
           /\ Call.target_note \in AliasDigitNotes
           /\ save_name(Call.target_note).dir = DIAGRAM_PATH
           /\ save_name(Call.target_note).sub = << >>
           /\ save_name(Call.target_note).name \in AliasDigitFileNames

----------------------------------------------------------------------------
(* Properties of the tables of pitch_logic.py *)

\* The positions of a target note that is an alias and a digit, computed
\* from the tables as they are after the import.
ExpectedPositions(target_note) ==
    LET alias == SubSeq(target_note, 1, Len(target_note) - 1)
        pitch == (DigitValue[target_note[Len(target_note)]] + 1) * 12
                     + NoteMap[alias]
    IN  [i \in 1..6 |-> <<i - 1, pitch - StandardTuning[i]>>]

AliasAndDigit(target_note) ==
    /\ Len(target_note) >= 2
    /\ target_note[Len(target_note)] \in Digit
    /\ SubSeq(target_note, 1, Len(target_note) - 1) \in DOMAIN NoteMap

\* C21: no call of the core changes note_map or guitar_string_map: in every
\* state of every interleaving of create_diagram calls, successful or
\* failing, both tables have their initial values, so every call resolves
\* its target note to the positions the initial tables give, and rejects it
\* only when the initial tables do, whatever was called before or meanwhile.
CoreTablesUnchanged ==
    /\ note_map = NoteMap
    /\ guitar_string_map = [i \in 0..5 |-> StandardTuning[i + 1]]
    /\ \A t \in Threads :
           LET f == frames[t]
           IN  /\ (f.pc \in {"mark", "mkdir", "export"} \/ f.mkdirs > 0) =>
                      /\ AliasAndDigit(f.target_note)
                      /\ f.positions = ExpectedPositions(f.target_note)
               /\ (f.pc = "idle" /\ f.ret.kind = "raise" /\ f.mkdirs = 0) =>
                      ~AliasAndDigit(f.target_note)

CoreTablesUnchangedWitness ==
    /\ calls_left = 0
    /\ H4 \in {frames[t].target_note : t \in Threads}
    /\ E3 \in {frames[t].target_note : t \in Threads}
    /\ \A t \in Threads : frames[t].pc = "idle"
    /\ E2 \in DOMAIN exported
    /\ io_failed

----------------------------------------------------------------------------
(* Properties of the functions of db_operations.py *)

\* Another row than the one of exercise_id (any row when exercise_id is 0)
\* has the title.
TitleTaken(title, exercise_id) ==
    \E e \in DOMAIN exercises \ {exercise_id} : exercises[e].title = title

\* C24: no two rows of the exercises table have the same title; a
\* create_exercise or update_exercise call that would duplicate a title
\* returns False and leaves the table unchanged; an update_exercise call
\* that keeps the exercise's own title is not rejected.
ExerciseTitlesUnique ==
    /\ [](\A e1, e2 \in DOMAIN exercises :
             exercises[e1].title = exercises[e2].title => e1 = e2)
    /\ [][/\ \A title \in Titles :
               TitleTaken(title, 0) =>
                   \A svg \in SvgPaths : \A rowid \in ExerciseIds :
                       CallCreateExercise(title, svg, rowid)
                           => (ret' = Ok(FALSE) /\ exercises' = exercises)
          /\ \A e \in ExerciseIdArgs : \A title \in Titles :
               /\ TitleTaken(title, e) =>
                      \A svg \in SvgPaths \cup {<< >>} :
                          CallUpdateExercise(e, title, svg)
                              => (ret' = Ok(FALSE) /\ exercises' = exercises)
               /\ (e \in DOMAIN exercises /\ exercises[e].title = title) =>
                      \A svg \in SvgPaths \cup {<< >>} :
                          CallUpdateExercise(e, title, svg)
                              => (ret' = Ok(TRUE) /\ exercises'[e].title = title)
         ]_vars

ExerciseTitlesUniqueWitness ==
    /\ Cardinality(DOMAIN exercises) = 2
    /\ ret = Ok(FALSE)
    /\ \E e \in DOMAIN exercises :
           exercises[e].svg_diagram_path # sample_exercise.svg_diagram_path

\* C25: every row of practice_sessions has a difficulty_rating in 1..5; a
\* create_practice_session or update_practice_session call with a rating
\* below 1 or above 5, or naming an exercise (create) or a session (update)
\* that does not exist, returns False and leaves the table unchanged.
RatingsWithinOneToFive ==
    /\ [](\A s \in DOMAIN practice_sessions :
             practice_sessions[s].difficulty_rating \in 1..5)
    /\ [][/\ \A e \in ExerciseIdArgs : \A d \in Ratings :
               (d \notin 1..5 \/ e \notin DOMAIN exercises) =>
                   \A u \in {2, 3} : \A rowid \in SessionIds :
                       CallCreatePracticeSession(u, e, d, rowid) =>
                           /\ ret' = Ok(FALSE)
                           /\ practice_sessions' = practice_sessions
          /\ \A sid \in SessionIdArgs : \A d \in Ratings :
               (d \notin 1..5 \/ sid \notin DOMAIN practice_sessions) =>
                   (CallUpdatePracticeSession(sid, d) =>
                        /\ ret' = Ok(FALSE)
                        /\ practice_sessions' = practice_sessions)
         ]_vars

RatingsWithinOneToFiveWitness ==
    /\ ret = Ok(FALSE)
    /\ \E s \in DOMAIN practice_sessions :
           /\ practice_sessions[s].user_id = 3
           /\ practice_sessions[s].difficulty_rating = 3
    /\ DOMAIN exercises # {}

\* C29: every row of practice_sessions has the id of an existing exercise
\* as its exercise_id, so every stored session of a user is among the rows
\* get_user_practice_sessions returns for that user.
SessionsReferToExercises ==
    \A s \in DOMAIN practice_sessions :
        /\ practice_sessions[s].exercise_id \in DOMAIN exercises
        /\ s \in get_user_practice_sessions(practice_sessions[s].user_id)

----------------------------------------------------------------------------
(* Properties of the routes of app.py *)

\* The request of this step is one to an exercise route.
ExerciseRequest ==
    \/ \E method \in Methods : \E form \in NoteForms : \E io \in RouteIo :
       \E rowid \in ExerciseIds :
           create_exercise_route(method, form, io, rowid)
    \/ \E exercise_id \in ExerciseIdArgs : \E method \in Methods :
       \E form \in NoteForms : \E io \in RouteIo :
           edit_exercise_route(exercise_id, method, form, io)
    \/ \E exercise_id \in ExerciseIdArgs : delete_exercise_route(exercise_id)

LoggedOut == "user_id" \notin DOMAIN session

IsAdmin == "is_admin" \in DOMAIN session /\ session["is_admin"] = 1

EndOctaveNotDrawn ==
    \A k1 \in DOMAIN renders : \A k2 \in DOMAIN renders :
        (k1[1] = k2[1] /\ k1[2] = k2[2] /\ k1[3] # k2[3]) =>
            /\ renders[k1].target_note = renders[k2].target_note
            /\ renders[k1].path = renders[k2].path
            /\ renders[k1].drawing = renders[k2].drawing
            /\ renders[k1].svg_diagram_path = renders[k2].svg_diagram_path
            /\ renders[k1].note_range # renders[k2].note_range

EndOctaveNotDrawnWitness ==
    /\ \E k1 \in DOMAIN renders : \E k2 \in DOMAIN renders : k1[3] # k2[3]
    /\ \E e \in DOMAIN exercises :
           exercises[e].note_range = <<"C", "#", "2", "-", "C", "#", "3">>

\* C28: a request to the create or edit exercise route that is rejected
\* because another exercise has the title leaves the exercises table and
\* the diagram files as they were.
RejectedTitleChangesNothing ==
    [][(/\ response'.kind = "render"
        /\ response'.flash = "An exercise with that name already exists, please choose a new one") =>
           /\ exercises' = exercises
           /\ files' = files
           /\ dir_exists' = dir_exists
      ]_vars

\* C23: a step that updates or deletes a row of practice_sessions is made
\* in a request whose session holds the row's user_id as 'user_id'; a request
\* of another user or of a logged-out client leaves the row as it was. In
\* AppSpec the edit and delete session routes are the only requests that
\* update or delete a row.
SessionChangedByOwnerOnly ==
    [][\A s \in DOMAIN practice_sessions :
           (s \notin DOMAIN practice_sessions'
                \/ practice_sessions'[s] # practice_sessions[s]) =>
               /\ ~LoggedOut
               /\ session["user_id"] = practice_sessions[s].user_id
      ]_vars

SessionChangedByOwnerOnlyWitness ==
    /\ response.kind = "redirect"
    /\ response.flash = "Unauthorised edit attempt"
    /\ 1 \in DOMAIN practice_sessions
    /\ practice_sessions[1].user_id = 2
    /\ practice_sessions[1].difficulty_rating = 5
    /\ ~LoggedOut
    /\ session["user_id"] = 1

====
